---- MODULE Spec2Model ----
(***************************************************************************)
(* A model of the data fetcher of marvel-tracker (src/src/App.jsx, lines   *)
(* 391-561): run() fetches the pack index, then for every pack its         *)
(* encounter document and its player document, folds every record into the *)
(* aggregate db, sorts three collections and writes the artifact.          *)
(***************************************************************************)
EXTENDS Integers, Sequences, FiniteSets, TLC

(***************************************************************************)
(* Bounds of the model.                                                    *)
(***************************************************************************)
\* packs in the index
MaxPacks == 2
\* records served by the mirror during one run, over all documents
MaxRecords == 2
\* redirects answered to one fetchJson call
MaxHops == 1
\* the highest threat a tap of the threat dial raises the scheme to
MaxThreat == 3
\* the highest value a tap of a hit-point dial raises it to
MaxHp == 2
\* units in play at once
MaxUnits == 2
\* the readings of Date.now() during one session, 0..MaxClock
MaxClock == 2
\* the last round advanceGame moves to
MaxRound == 2

(***************************************************************************)
(* JavaScript values of the raw JSON fields the script reads.              *)
(***************************************************************************)
Undefined == [t |-> "undefined", n |-> 0, cs |-> <<>>]
Null == [t |-> "null", n |-> 0, cs |-> <<>>]
Num(k) == [t |-> "number", n |-> k, cs |-> <<>>]
Str(chars) == [t |-> "string", n |-> 0, cs |-> chars]
True == [t |-> "boolean", n |-> 1, cs |-> <<>>]
False == [t |-> "boolean", n |-> 0, cs |-> <<>>]

\* name, code, type_code and card_set_code are strings; Absent is the
\* value of a field the record does not have (undefined)
Absent == "<undefined>"

DigitChars == {"0", "1", "2", "3", "4", "5", "6", "7", "8", "9"}

DigitVal(c) ==
  CASE c = "0" -> 0 [] c = "1" -> 1 [] c = "2" -> 2 [] c = "3" -> 3
    [] c = "4" -> 4 [] c = "5" -> 5 [] c = "6" -> 6 [] c = "7" -> 7
    [] c = "8" -> 8 [] c = "9" -> 9

DigitChar(d) ==
  CASE d = 0 -> "0" [] d = 1 -> "1" [] d = 2 -> "2" [] d = 3 -> "3"
    [] d = 4 -> "4" [] d = 5 -> "5" [] d = 6 -> "6" [] d = 7 -> "7"
    [] d = 8 -> "8" [] d = 9 -> "9"

RECURSIVE NatToChars(_)
NatToChars(k) ==
  IF k < 10 THEN <<DigitChar(k)>>
  ELSE NatToChars(k \div 10) \o <<DigitChar(k % 10)>>

\* String(v)
JsString(v) ==
  CASE v.t = "undefined" -> <<"u", "n", "d", "e", "f", "i", "n", "e", "d">>
    [] v.t = "null" -> <<"n", "u", "l", "l">>
    [] v.t = "number" ->
         IF v.n < 0 THEN <<"-">> \o NatToChars(0 - v.n) ELSE NatToChars(v.n)
    [] v.t = "boolean" ->
         IF v.n = 1 THEN <<"t", "r", "u", "e">> ELSE <<"f", "a", "l", "s", "e">>
    [] v.t = "string" -> v.cs

\* s.replace(/[^0-9]/g, '')
StripNonDigits(chars) == SelectSeq(chars, LAMBDA c : c \in DigitChars)

RECURSIVE DigitPrefix(_)
DigitPrefix(chars) ==
  IF chars = <<>> \/ Head(chars) \notin DigitChars THEN <<>>
  ELSE <<Head(chars)>> \o DigitPrefix(Tail(chars))

RECURSIVE DecimalValue(_, _)
DecimalValue(acc, chars) ==
  IF chars = <<>> THEN acc
  ELSE DecimalValue(acc * 10 + DigitVal(Head(chars)), Tail(chars))

\* parseInt(s): an optional sign, then the longest prefix of digits; NaN
\* when that prefix is empty
parseInt(chars) ==
  LET neg == chars # <<>> /\ Head(chars) = "-"
      rest == IF chars # <<>> /\ Head(chars) \in {"-", "+"} THEN Tail(chars) ELSE chars
      ds == DigitPrefix(rest)
  IN  IF ds = <<>> THEN [nan |-> TRUE, n |-> 0]
      ELSE [nan |-> FALSE,
            n |-> IF neg THEN 0 - DecimalValue(0, ds) ELSE DecimalValue(0, ds)]

\* parseInt(String(health)) with no replace: what a missing strip would do
ParseHpNoStrip(health) ==
  LET r == parseInt(JsString(health))
  IN  IF r.nan \/ r.n = 0 THEN 0 ELSE r.n

\* parseInt(String(card.health).replace(/[^0-9]/g, '')) || 0
ParseHp(health) ==
  LET r == parseInt(StripNonDigits(JsString(health)))
  IN  IF r.nan \/ r.n = 0 THEN 0 ELSE r.n

\* ToBoolean(v)
Truthy(v) ==
  CASE v.t = "undefined" -> FALSE
    [] v.t = "null" -> FALSE
    [] v.t = "number" -> v.n # 0
    [] v.t = "boolean" -> v.n = 1
    [] v.t = "string" -> v.cs # <<>>

\* v || d
OrElse(v, d) == IF Truthy(v) THEN v ELSE d

(***************************************************************************)
(* The override table and the villain stages.                              *)
(***************************************************************************)
VILLAIN_STATS ==
  "Rhino" :> <<14, 15, 16>> @@
  "Klaw" :> <<12, 18, 22>> @@
  "Ultron" :> <<17, 22, 27>> @@
  "Green Goblin" :> <<14, 17, 20>> @@
  "Norman Osborn" :> <<14, 17, 20>> @@
  "Wrecking Crew" :> <<14, 14, 14>> @@
  "Wrecker" :> <<14, 15, 16>> @@
  "Bulldozer" :> <<12, 13, 14>> @@
  "Piledriver" :> <<11, 12, 13>> @@
  "Thunderball" :> <<13, 14, 15>> @@
  "Crossbones" :> <<12, 16, 17>> @@
  "Absorbing Man" :> <<13, 14, 15>> @@
  "Taskmaster" :> <<13, 16, 18>> @@
  "Zola" :> <<12, 14, 15>> @@
  "Red Skull" :> <<16, 20, 22>> @@
  "Kang" :> <<12, 15, 18>> @@
  "Drang" :> <<13, 14, 15>> @@
  "Collector" :> <<11, 13, 13>> @@
  "Nebula" :> <<14, 17, 20>> @@
  "Ronan the Accuser" :> <<14, 18, 22>> @@
  "Ebony Maw" :> <<12, 16, 18>> @@
  "Proxima Midnight" :> <<12, 14, 16>> @@
  "Corvus Glaive" :> <<13, 15, 17>> @@
  "Thanos" :> <<20, 24, 28>> @@
  "Hela" :> <<8, 10, 12>> @@
  "Loki" :> <<20, 20, 20>> @@
  "The Hood" :> <<14, 16, 18>> @@
  "Sandman" :> <<14, 16, 18>> @@
  "Venom" :> <<15, 18, 20>> @@
  "Mysterio" :> <<12, 14, 16>> @@
  "Venom Goblin" :> <<15, 18, 21>> @@
  "Sabretooth" :> <<14, 16, 18>> @@
  "Sentinel" :> <<15, 18, 20>> @@
  "Master Mold" :> <<16, 18, 20>> @@
  "Magneto" :> <<18, 20, 22>> @@
  "MaGog" :> <<14, 16, 18>> @@
  "Spiral" :> <<14, 16, 18>> @@
  "Mojo" :> <<16, 18, 20>> @@
  "Juggernaut" :> <<16, 18, 20>> @@
  "Mister Sinister" :> <<14, 16, 18>> @@
  "Stryfe" :> <<16, 18, 20>> @@
  "Unus" :> <<13, 15, 17>> @@
  "Four Horsemen" :> <<12, 12, 12>> @@
  "Apocalypse" :> <<18, 20, 22>> @@
  "Dark Beast" :> <<14, 16, 18>> @@
  "Enchantress" :> <<14, 16, 18>> @@
  "Arcade" :> <<14, 16, 18>>

\* the properties every object literal inherits from Object.prototype
ObjectPrototypeKeys ==
  {"constructor", "toString", "toLocaleString", "valueOf", "hasOwnProperty",
   "isPrototypeOf", "propertyIsEnumerable", "__proto__", "__defineGetter__",
   "__defineSetter__", "__lookupGetter__", "__lookupSetter__"}

\* the key a property access obj[name] reads
PropertyKey(name) == IF name = Absent THEN "undefined" ELSE name

Stages(a) == [t |-> "array", a |-> a]
\* a value found on the prototype chain: a function (or Object.prototype)
Inherited == [t |-> "function", a |-> <<>>]
NotFound == [t |-> "undefined", a |-> <<>>]

\* VILLAIN_STATS[card.name]
StatsLookup(name) ==
  LET key == PropertyKey(name)
  IN  IF key \in DOMAIN VILLAIN_STATS THEN Stages(VILLAIN_STATS[key])
      ELSE IF key \in ObjectPrototypeKeys THEN Inherited
      ELSE NotFound

\* a lookup that never finds the name: the fallback for every villain
goldenStatsFallbackOnly(name) == Stages(<<15, 15, 15>>)

\* let goldenStats = VILLAIN_STATS[card.name];
\* if (!goldenStats) goldenStats = [15, 15, 15];
goldenStats(name) ==
  IF StatsLookup(name).t = "undefined" THEN Stages(<<15, 15, 15>>)
  ELSE StatsLookup(name)

(***************************************************************************)
(* Raw records (cards) of the documents, and the card pools a run draws    *)
(* its documents from.                                                     *)
(***************************************************************************)
Card(type, name, code, set, health, base, threat, accel, fixed) ==
  [type_code |-> type, name |-> name, code |-> code, card_set_code |-> set,
   health |-> health, base_threat |-> base, threat |-> threat,
   acceleration |-> accel, base_threat_fixed |-> fixed]

\* a null element of a document array
NullItem == [null |-> TRUE]

VillainPool ==
  { Card("villain", "Rhino", "01094", "rhino", Str(<<"0">>), Undefined, Undefined, Undefined, Undefined),
    Card("villain", "Rhino", "01095", Absent, Null, Undefined, Undefined, Undefined, Undefined),
    Card("villain", "Klaw", "01113", "klaw", Str(<<"X">>), Undefined, Undefined, Undefined, Undefined),
    Card("villain", "Zzzax", "90001", "zzzax", Num(0), Undefined, Undefined, Undefined, Undefined),
    Card("villain", "constructor", "90002", "", Num(9), Undefined, Undefined, Undefined, Undefined),
    Card("villain", Absent, "90003", "anon", Undefined, Undefined, Undefined, Undefined, Undefined) }

SchemePool ==
  { Card("main_scheme", "The Break-In!", "01097", "rhino", Undefined, Num(0), Num(7), Num(1), Undefined),
    Card("main_scheme", "The Break-In!", Absent, "rhino", Undefined, Undefined, Null, Undefined, True),
    Card("main_scheme", "Underground Distribution", "", Absent, Undefined, Num(6), Num(0), Undefined, False),
    Card("main_scheme", "Secret Rendezvous", "01115", "klaw", Undefined, Num(2), Undefined, Num(1), Undefined),
    Card("main_scheme", "The Crimson Cowl", "01098", "ultron", Undefined, Num(1), Null, Num(1), False),
    Card("main_scheme", "Countdown to Oblivion", "01096", "ultron", Undefined, Num(-1), Str(<<"X">>), Null, Undefined) }

UnitPool ==
  { Card("minion", "Hand Ninja", "01110", "hand", Str(<<"2", "x", "3">>), Undefined, Undefined, Undefined, Undefined),
    Card("minion", "Hand Ninja", "01111", "hand", Num(5), Undefined, Undefined, Undefined, Undefined),
    Card("minion", "Hydra Soldier", "01112", "hydra", Undefined, Undefined, Undefined, Undefined, Undefined),
    Card("minion", "Sandman", "01114", "rhino", Str(<<"-", "4">>), Undefined, Undefined, Undefined, Undefined),
    Card("side_scheme", "Breakin' & Takin'", "01107", "rhino", Undefined, Num(2), Undefined, Undefined, Undefined),
    Card("side_scheme", "Breakin' & Takin'", "01108", "rhino", Undefined, Undefined, Undefined, Undefined, Undefined) }

PlayerPool ==
  { Card("hero", "Spider-Man", "01001", "spider_man", Str(<<"1", "0">>), Undefined, Undefined, Undefined, Undefined),
    Card("hero", "Spider-Man", "27001", "spider_man", Num(11), Undefined, Undefined, Undefined, Undefined),
    Card("hero", "Captain Marvel", "01010", "captain_marvel", Str(<<"0", "1", "2">>), Undefined, Undefined, Undefined, Undefined),
    Card("hero", Absent, "01040", "anon", Null, Undefined, Undefined, Undefined, Undefined),
    Card("ally", "Nick Fury", "01084", "basic", Str(<<"3">>), Undefined, Undefined, Undefined, Undefined),
    Card("ally", "Nick Fury", "01085", "basic", Str(<<"X">>), Undefined, Undefined, Undefined, Undefined) }

\* one record of every recognized kind, all of the same name
KindsPool ==
  { Card("villain", "Rhino", "01094", "rhino", Str(<<"0">>), Undefined, Undefined, Undefined, Undefined),
    Card("main_scheme", "Rhino", "01097", "rhino", Undefined, Num(0), Num(7), Num(1), Undefined),
    Card("side_scheme", "Rhino", "01107", "rhino", Undefined, Num(2), Undefined, Undefined, Undefined),
    Card("minion", "Rhino", "01110", "hand", Num(2), Undefined, Undefined, Undefined, Undefined),
    Card("hero", "Rhino", "01001", "spider_man", Num(10), Undefined, Undefined, Undefined, Undefined),
    Card("ally", "Rhino", "01084", "basic", Num(3), Undefined, Undefined, Undefined, Undefined) }

\* records of no recognized kind, of a kind written in the wrong case, of no
\* kind at all, and a null element, next to two ordinary records
OddPool ==
  { Card("event", "Rhino", "01020", "basic", Undefined, Undefined, Undefined, Undefined, Undefined),
    Card("Villain", "Rhino", "01094", "rhino", Num(14), Undefined, Undefined, Undefined, Undefined),
    Card(Absent, "Rhino", "01021", "basic", Num(4), Undefined, Num(3), Undefined, True),
    NullItem,
    Card("minion", "Hydra Soldier", "01112", "hydra", Num(3), Undefined, Undefined, Undefined, Undefined),
    Card("hero", "Spider-Man", "01001", "spider_man", Num(10), Undefined, Undefined, Undefined, Undefined) }

Pools == {VillainPool, SchemePool, UnitPool, PlayerPool, KindsPool, OddPool}

(***************************************************************************)
(* The aggregate db and the fold of one record into it.                    *)
(***************************************************************************)
EmptyDb ==
  [villains |-> <<>>, schemes |-> <<>>, heroes |-> <<>>,
   side_schemes |-> <<>>, minions |-> <<>>, allies |-> <<>>]

\* list.some(e => e.name === name)
HasName(list, name) == \E k \in 1..Len(list) : list[k].name = name

\* the index of list.find(e => e.name === name), 0 when there is none
FindName(list, name) ==
  IF HasName(list, name)
  THEN CHOOSE k \in 1..Len(list) :
         list[k].name = name /\ \A j \in 1..(k - 1) : list[j].name # name
  ELSE 0

\* a set code that is the raw field, whatever it holds
setCodeCopied(card) == card.card_set_code

\* const setCode = card.card_set_code || "unknown";
setCode(card) ==
  IF card.card_set_code \in {Absent, ""} THEN "unknown" ELSE card.card_set_code

\* a villain fold that pushes without looking for an existing entry
FoldVillainNoFind(db, card) ==
  [db EXCEPT !.villains =
     Append(@, [name |-> card.name, code |-> card.code,
                set_code |-> setCode(card), stages |-> goldenStats(card.name)])]

\* a villain fold that takes the stages of a new entry from the health of
\* its record when that is a number
FoldVillainHealthStages(db, card) ==
  LET k == FindName(db.villains, card.name)
      s == IF card.health.t = "number" /\ card.health.n > 0
           THEN Stages(<<card.health.n, card.health.n, card.health.n>>)
           ELSE goldenStats(card.name)
  IN  IF k = 0
      THEN [db EXCEPT !.villains =
              Append(@, [name |-> card.name, code |-> card.code,
                         set_code |-> setCode(card), stages |-> s])]
      ELSE db

\* a villain fold where a later record replaces the entry it finds
FoldVillainLastWins(db, card) ==
  LET k == FindName(db.villains, card.name)
      e == [name |-> card.name, code |-> card.code, set_code |-> setCode(card),
            stages |-> goldenStats(card.name)]
  IN  IF k = 0 THEN [db EXCEPT !.villains = Append(@, e)]
      ELSE [db EXCEPT !.villains[k] = e]

FoldVillain(db, card) ==
  LET k == FindName(db.villains, card.name)
  IN  IF k = 0
      THEN [db EXCEPT !.villains =
              Append(@, [name |-> card.name, code |-> card.code,
                         set_code |-> setCode(card),
                         stages |-> goldenStats(card.name)])]
      ELSE [db EXCEPT !.villains[k].stages = goldenStats(card.name)]

\* an inclusion test that forgets the fixed flag
SchemeIncludedThreatOnly(card) == card.threat.t \notin {"undefined", "null"}

\* (card.threat !== undefined && card.threat !== null) || card.base_threat_fixed === true
SchemeIncluded(card) ==
  \/ card.threat.t \notin {"undefined", "null"}
  \/ card.base_threat_fixed = True

\* a main scheme fold that skips a name schemes already holds
FoldMainSchemeDedup(db, card) ==
  IF SchemeIncluded(card) /\ ~HasName(db.schemes, card.name)
  THEN [db EXCEPT !.schemes =
          Append(@, [name |-> card.name, code |-> card.code,
                     set_code |-> setCode(card),
                     init |-> OrElse(card.base_threat, Num(0)),
                     target |-> OrElse(card.threat, Num(0)),
                     accel |-> OrElse(card.acceleration, Num(0)),
                     fixed |-> OrElse(card.base_threat_fixed, False)])]
  ELSE db

FoldMainScheme(db, card) ==
  IF SchemeIncluded(card)
  THEN [db EXCEPT !.schemes =
          Append(@, [name |-> card.name, code |-> card.code,
                     set_code |-> setCode(card),
                     init |-> OrElse(card.base_threat, Num(0)),
                     target |-> OrElse(card.threat, Num(0)),
                     accel |-> OrElse(card.acceleration, Num(0)),
                     fixed |-> OrElse(card.base_threat_fixed, False)])]
  ELSE db

\* a side scheme fold that pushes without looking for the name
FoldSideSchemeNoDedup(db, card) ==
  [db EXCEPT !.side_schemes =
     Append(@, [name |-> card.name, init |-> OrElse(card.base_threat, Num(0)),
                code |-> card.code])]

FoldSideScheme(db, card) ==
  IF HasName(db.side_schemes, card.name) THEN db
  ELSE [db EXCEPT !.side_schemes =
          Append(@, [name |-> card.name,
                     init |-> OrElse(card.base_threat, Num(0)),
                     code |-> card.code])]

FoldMinion(db, card) ==
  IF HasName(db.minions, card.name) THEN db
  ELSE [db EXCEPT !.minions =
          Append(@, [name |-> card.name, hp |-> ParseHp(card.health),
                     code |-> card.code])]

\* a hero fold where the later record replaces the entry it finds
FoldHeroLastWins(db, card) ==
  LET k == FindName(db.heroes, card.name)
      e == [name |-> card.name, hp |-> ParseHp(card.health), code |-> card.code]
  IN  IF k = 0 THEN [db EXCEPT !.heroes = Append(@, e)]
      ELSE [db EXCEPT !.heroes[k] = e]

FoldHero(db, card) ==
  IF HasName(db.heroes, card.name) THEN db
  ELSE [db EXCEPT !.heroes =
          Append(@, [name |-> card.name, hp |-> ParseHp(card.health),
                     code |-> card.code])]

FoldAlly(db, card) ==
  IF HasName(db.allies, card.name) THEN db
  ELSE [db EXCEPT !.allies =
          Append(@, [name |-> card.name, hp |-> ParseHp(card.health),
                     code |-> card.code])]

\* an encounter loop that also takes the kinds of the player loop
FoldEncounterCardAnyKind(db, card) ==
  CASE card.type_code = "villain" -> FoldVillain(db, card)
    [] card.type_code = "main_scheme" -> FoldMainScheme(db, card)
    [] card.type_code = "side_scheme" -> FoldSideScheme(db, card)
    [] card.type_code = "minion" -> FoldMinion(db, card)
    [] card.type_code = "hero" -> FoldHero(db, card)
    [] card.type_code = "ally" -> FoldAlly(db, card)
    [] OTHER -> db

\* an encounter loop whose last branch takes every remaining record as a
\* minion
FoldEncounterCardElseMinion(db, card) ==
  CASE card.type_code = "villain" -> FoldVillain(db, card)
    [] card.type_code = "main_scheme" -> FoldMainScheme(db, card)
    [] card.type_code = "side_scheme" -> FoldSideScheme(db, card)
    [] OTHER -> FoldMinion(db, card)

\* the body of the loop over encounterCards, for a card that is an object
FoldEncounterCard(db, card) ==
  CASE card.type_code = "villain" -> FoldVillain(db, card)
    [] card.type_code = "main_scheme" -> FoldMainScheme(db, card)
    [] card.type_code = "side_scheme" -> FoldSideScheme(db, card)
    [] card.type_code = "minion" -> FoldMinion(db, card)
    [] OTHER -> db

\* the body of the loop over playerCards, for a card that is an object
FoldPlayerCard(db, card) ==
  CASE card.type_code = "hero" -> FoldHero(db, card)
    [] card.type_code = "ally" -> FoldAlly(db, card)
    [] OTHER -> db

(***************************************************************************)
(* The three sorts and the serialisation of the aggregate.                 *)
(***************************************************************************)
\* the strings the comparators see, in the order of String.prototype.localeCompare
\* (the empty string first, digits before letters, letters alphabetically
\* whatever their case)
CollationOrder ==
  <<"", "01096", "01097", "01098", "01115", "Captain Marvel", "constructor",
    "Klaw", "Rhino", "Spider-Man", "undefined", "Zzzax">>

CollationRank(s) ==
  CHOOSE k \in 1..Len(CollationOrder) : CollationOrder[k] = s

\* a.localeCompare(b), for a a string; an undefined b is compared as "undefined"
localeCompare(a, b) ==
  LET ra == CollationRank(a)
      rb == CollationRank(PropertyKey(b))
  IN  IF ra < rb THEN -1 ELSE IF ra > rb THEN 1 ELSE 0

\* (a, b) => a.name.localeCompare(b.name), once a.name is known to be a string
ByName(a, b) == localeCompare(PropertyKey(a.name), b.name)

\* a.code || ""
CodeOrEmpty(e) == IF e.code \in {Absent, ""} THEN "" ELSE e.code

\* (a, b) => (a.code || "").localeCompare(b.code || "")
ByCode(a, b) == localeCompare(CodeOrEmpty(a), CodeOrEmpty(b))

\* Array.prototype.sort with a consistent comparator, the stable sort;
\* cmp[j][k] is what the comparator returns for the elements j and k
StableSort(list, cmp) ==
  LET n == Len(list)
      before(j, k) == cmp[j][k] < 0 \/ (cmp[j][k] = 0 /\ j < k)
      place(k) == Cardinality({j \in 1..n : before(j, k)}) + 1
  IN  [p \in 1..n |-> list[CHOOSE k \in 1..n : place(k) = p]]

\* a sort statement that is missing
SortMissing(list) == list

\* list.sort((a, b) => a.name.localeCompare(b.name))
SortByName(list) ==
  StableSort(list, [j \in 1..Len(list) |-> [k \in 1..Len(list) |-> ByName(list[j], list[k])]])

\* db.schemes.sort((a, b) => (a.code || "").localeCompare(b.code || ""))
SortByCode(list) ==
  StableSort(list, [j \in 1..Len(list) |-> [k \in 1..Len(list) |-> ByCode(list[j], list[k])]])

\* a.name.localeCompare throws a TypeError when a.name is undefined; which
\* element a comparison receives as a is the engine's choice, so a list of two
\* or more entries with a nameless one may or may not throw
SortMayThrow(list) == Len(list) >= 2 /\ HasName(list, Absent)

SortDb(d) ==
  [d EXCEPT !.villains = SortByName(@), !.schemes = SortByCode(@),
            !.heroes = SortByName(@)]

\* JSON.stringify of one entry: a property whose value is undefined or a
\* function is left out, an array of stages is written as it is
StringifyEntry(e) ==
  [f \in {g \in DOMAIN e :
            /\ ~(g \in {"name", "code"} /\ e[g] = Absent)
            /\ ~(g = "stages" /\ e[g].t = "function")}
     |-> IF f = "stages" THEN e[f].a ELSE e[f]]

StringifyList(list) == [k \in 1..Len(list) |-> StringifyEntry(list[k])]

\* JSON.stringify(db, null, 2)
Stringify(d) ==
  [villains |-> StringifyList(d.villains), schemes |-> StringifyList(d.schemes),
   heroes |-> StringifyList(d.heroes), side_schemes |-> StringifyList(d.side_schemes),
   minions |-> StringifyList(d.minions), allies |-> StringifyList(d.allies)]

(***************************************************************************)
(* URLs, responses and JSON bodies.                                        *)
(***************************************************************************)
Url(scheme, rest) == [scheme |-> scheme, rest |-> rest]

PACKS_API == Url("https", "marvelcdb.com/api/public/packs")
GITHUB_BASE == "raw.githubusercontent.com/zzorba/marvelsdb-json-data/master/pack"

\* `${GITHUB_BASE}/${code}_encounter.json`
EncounterUrl(code) ==
  Url("https", GITHUB_BASE \o "/" \o PropertyKey(code) \o "_encounter.json")

\* `${GITHUB_BASE}/${code}.json`
PlayerUrl(code) == Url("https", GITHUB_BASE \o "/" \o PropertyKey(code) \o ".json")

\* a response without a location header
NoLocation == [none |-> TRUE]

\* the values a location header takes: an absolute https URL, and a relative
\* reference, which https.get refuses with a TypeError
Locations == {Url("https", "cdn.example/moved.json"), Url("", "/moved.json")}

Unparsable == [t |-> "unparsable"]
JNull == [t |-> "null"]
JObject == [t |-> "object"]
JArray(items) == [t |-> "array", items |-> items]

TransportError == [kind |-> "error"]
Response(status, location, body) ==
  [kind |-> "response", status |-> status, location |-> location, body |-> body]

SeqsUpTo(S, n) == UNION {[1..k -> S] : k \in 0..n}

Bodies(items, n) ==
  {Unparsable, JNull, JObject} \cup {JArray(s) : s \in SeqsUpTo(items, n)}

Min(a, b) == IF a < b THEN a ELSE b

\* what the server may answer to a request for a document whose array holds
\* at most n elements of items: a transport error, a redirect (with a body
\* that is no JSON, or with the body []), a success with a location header,
\* a success with any body, and a 3xx without location or a 404 with a body
\* of at most one element
Responses(items, n) ==
  {TransportError}
    \cup {Response(302, loc, b) : loc \in Locations, b \in {Unparsable, JArray(<<>>)}}
    \cup {Response(200, loc, JArray(<<>>)) : loc \in Locations}
    \cup {Response(200, NoLocation, b) : b \in Bodies(items, n)}
    \cup {Response(s, NoLocation, b) : s \in {302, 404}, b \in Bodies(items, Min(n, 1))}

\* the pack index: objects with a code, an object without one, a null element
PackList == <<"core", "gob", "twc", "trors">>
PackObject(code) == [code |-> code]
IndexArrays ==
  {[k \in 1..m |-> PackObject(PackList[k])] : m \in 0..MaxPacks}
    \cup {<<PackObject(Absent)>>, <<NullItem>>}
IndexResponses ==
  {TransportError}
    \cup {Response(302, loc, Unparsable) : loc \in Locations}
    \cup {Response(s, NoLocation, b) :
            s \in {200, 404},
            b \in {Unparsable, JNull, JObject} \cup {JArray(a) : a \in IndexArrays}}

(***************************************************************************)
(* The state of one run.                                                   *)
(***************************************************************************)
VARIABLES
  pool,       \* the cards the mirror's documents are made of in this run
  pc,         \* where run() stands
  requests,   \* the URLs of the requests in flight
  hops,       \* redirects followed by the current fetchJson call
  resp,       \* the response last delivered to fetchJson
  result,     \* what the fetchJson promise settled with, Pending before
  packCodes,  \* const packCodes
  i,          \* the index in packCodes of the pack being processed
  cards,      \* the records of the current document not folded yet
  db,         \* const db
  last,       \* the record folded by the last step of a loop
  served,     \* the records served so far in this run
  artifact,   \* the content of OUTPUT_FILE
  writes      \* the calls of fs.writeFileSync

(***************************************************************************)
(* The state of the tracker (src/unnamed/part_000): the component App of   *)
(* the page, its data file and the clock of the browser.  The visibility   *)
(* of the setup, summon and scheme dialogs, the search terms, the tabs and *)
(* the status marks are view state that no handler or effect below reads;  *)
(* they are left out, and the handlers are taken in any order.             *)
(***************************************************************************)
VARIABLES
  marvelData,          \* the imported data file (safeData)
  villain,             \* useStickyState(..., 'mc_villain')
  hero,                \* useStickyState(..., 'mc_hero')
  mainScheme,          \* useStickyState(..., 'mc_scheme')
  units,               \* useStickyState([], 'mc_units')
  round,               \* useStickyState(1, 'mc_round')
  playerCount,         \* useStickyState(1, 'mc_players')
  showSchemeComplete,  \* useState(false)
  now,                 \* what Date.now() returns
  deps                 \* the dependencies each effect last ran with

runVars ==
  <<pool, pc, requests, hops, resp, result, packCodes, i, cards, db, last,
    served, artifact, writes>>

appVars ==
  <<marvelData, villain, hero, mainScheme, units, round, playerCount,
    showSchemeComplete, now, deps>>

vars ==
  <<pool, pc, requests, hops, resp, result, packCodes, i, cards, db, last,
    served, artifact, writes, marvelData, villain, hero, mainScheme, units,
    round, playerCount, showSchemeComplete, now, deps>>

\* const safeData = marvelData || {...}: the data file when there is none
NoDataFile ==
  [villains |-> <<>>, schemes |-> <<>>, heroes |-> <<>>,
   side_schemes |-> <<>>, minions |-> <<>>, allies |-> <<>>]

DefaultVillain ==
  [name |-> "Setup Game", code |-> Absent, set_code |-> "", hp |-> 0,
   maxHp |-> 0, stages |-> <<0, 0, 0>>, stageIdx |-> 0]

DefaultHero == [name |-> "Select Hero", code |-> Absent, hp |-> 0, maxHp |-> 0]

DefaultScheme ==
  [name |-> "Select Main Scheme", code |-> Absent, threat |-> 0, target |-> 0,
   baseTarget |-> 0, accel |-> 0, fixed |-> Undefined]

\* no effect has run: the component is rendered for the first time
NotRun == [recalc |-> <<>>, complete |-> <<>>]

\* the first render of App over the data file: every state at its default
\* (an empty localStorage), every effect still to run
InitTracker(file) ==
  /\ marvelData = file
  /\ villain = DefaultVillain
  /\ hero = DefaultHero
  /\ mainScheme = DefaultScheme
  /\ units = <<>>
  /\ round = 1
  /\ playerCount = 1
  /\ showSchemeComplete = FALSE
  /\ now = 0
  /\ deps = NotRun

Pending == [t |-> "pending"]
Rejected == [t |-> "rejected"]
Resolved(v) == [t |-> "resolved", v |-> v]
NoResponse == [kind |-> "none"]
NoCard == [none |-> TRUE]
NotWritten == [written |-> FALSE]

Init ==
  /\ pool \in Pools
  /\ pc = "start"
  /\ requests = {}
  /\ hops = 0
  /\ resp = NoResponse
  /\ result = Pending
  /\ packCodes = <<>>
  /\ i = 0
  /\ cards = <<>>
  /\ db = EmptyDb
  /\ last = NoCard
  /\ served = 0
  /\ artifact = NotWritten
  /\ writes = 0
  /\ InitTracker(NoDataFile)

\* OUTPUT_FILE as an earlier run left it: fs.writeFileSync replaces the
\* file, and run() never reads it
PriorArtifact ==
  [villains |-> <<[name |-> "Rhino", code |-> "01094", set_code |-> "rhino",
                   stages |-> <<14, 15, 16>>]>>,
   schemes |-> <<[name |-> "The Break-In!", code |-> "01097",
                  set_code |-> "rhino", init |-> Num(0), target |-> Num(7),
                  accel |-> Num(1), fixed |-> False]>>,
   heroes |-> <<[name |-> "Spider-Man", hp |-> 10, code |-> "01001"]>>,
   side_schemes |-> <<>>,
   minions |-> <<[name |-> "Retired Minion", hp |-> 1, code |-> "00000"]>>,
   allies |-> <<>>]

\* run() is called while OUTPUT_FILE holds the artifact of an earlier run
InitPrior ==
  /\ pool \in Pools
  /\ pc = "start"
  /\ requests = {}
  /\ hops = 0
  /\ resp = NoResponse
  /\ result = Pending
  /\ packCodes = <<>>
  /\ i = 0
  /\ cards = <<>>
  /\ db = EmptyDb
  /\ last = NoCard
  /\ served = 0
  /\ artifact = PriorArtifact
  /\ writes = 0
  /\ InitTracker(NoDataFile)

(***************************************************************************)
(* fetchJson.                                                              *)
(***************************************************************************)
Redirect(to) == [t |-> "redirect", to |-> to]

\* handlers that read and parse the body of every response, a redirect
\* included
FetchOutcomeBodyAlways(r) ==
  IF r.kind = "error" THEN Resolved(JArray(<<>>))
  ELSE IF r.body = Unparsable THEN Resolved(JArray(<<>>))
  ELSE Resolved(r.body)

\* what the handlers of https.get do with one response: the error handler
\* resolves [], a 3xx response with a location is followed, any other
\* response is read to its end and parsed, [] when JSON.parse throws
FetchOutcome(r) ==
  IF r.kind = "error" THEN Resolved(JArray(<<>>))
  ELSE IF r.status >= 300 /\ r.status < 400 /\ r.location # NoLocation
  THEN Redirect(r.location)
  ELSE IF r.body = Unparsable THEN Resolved(JArray(<<>>))
  ELSE Resolved(r.body)

\* the records a settled value hands to the loops of run()
Records(o) == IF o.t = "resolved" /\ o.v.t = "array" THEN Len(o.v.items) ELSE 0

\* run() is called: const packsData = await fetchJson(PACKS_API)
Start ==
  /\ UNCHANGED appVars
  /\ pc = "start"
  /\ pc' = "index"
  /\ requests' = {PACKS_API}
  /\ UNCHANGED <<pool, hops, resp, result, packCodes, i, cards, db, last,
                 served, artifact, writes>>

\* what the server may answer to the request in flight
ResponsesNow ==
  IF pc = "index" THEN IndexResponses ELSE Responses(pool, MaxRecords - served)

\* the request in flight gets the response r (or fails): fetchJson's handlers
Receive(r) ==
  /\ UNCHANGED appVars
  /\ requests # {}
  /\ result = Pending
  /\ LET o == FetchOutcome(r)
     IN  /\ o.t = "redirect" => hops < MaxHops
         /\ IF o.t = "redirect"
            THEN IF o.to.scheme = "https"
                 THEN requests' = {o.to} /\ hops' = hops + 1 /\ result' = Pending
                 ELSE requests' = {} /\ hops' = hops /\ result' = Rejected
            ELSE requests' = {} /\ hops' = hops /\ result' = o
         /\ served' = IF pc = "index" THEN served ELSE served + Records(o)
  /\ resp' = r
  /\ last' = NoCard
  /\ UNCHANGED <<pool, pc, packCodes, i, cards, db, artifact, writes>>

\* the awaited promise is rejected: run() throws at the await
AwaitThrows ==
  /\ UNCHANGED appVars
  /\ result = Rejected
  /\ pc' = "crashed"
  /\ result' = Pending
  /\ resp' = NoResponse
  /\ UNCHANGED <<pool, requests, hops, packCodes, i, cards, db, last, served,
                 artifact, writes>>

(***************************************************************************)
(* run().                                                                  *)
(***************************************************************************)
\* !packsData || packsData.length === 0
IndexRefused(v) == v.t = "null" \/ (v.t = "array" /\ Len(v.items) = 0)

\* packsData.map(p => p.code) throws: packsData has no map, or p is null
IndexMapThrows(v) ==
  v.t # "array" \/ \E k \in 1..Len(v.items) : v.items[k] = NullItem

\* a run() that requests both documents of the first pack at once
RunIndexBothDocuments ==
  /\ UNCHANGED appVars
  /\ pc = "index"
  /\ result.t = "resolved"
  /\ LET v == result.v
     IN  IF IndexRefused(v)
         THEN /\ pc' = "aborted"
              /\ UNCHANGED <<requests, packCodes, i>>
         ELSE IF IndexMapThrows(v)
         THEN /\ pc' = "crashed"
              /\ UNCHANGED <<requests, packCodes, i>>
         ELSE /\ packCodes' = [k \in 1..Len(v.items) |-> v.items[k].code]
              /\ i' = 1
              /\ requests' = {EncounterUrl(packCodes'[1]), PlayerUrl(packCodes'[1])}
              /\ pc' = "encounter"
  /\ hops' = 0
  /\ result' = Pending
  /\ resp' = NoResponse
  /\ UNCHANGED <<pool, cards, db, last, served, artifact, writes>>

\* run() resumes with the pack index
RunIndex ==
  /\ UNCHANGED appVars
  /\ pc = "index"
  /\ result.t = "resolved"
  /\ LET v == result.v
     IN  IF IndexRefused(v)
         THEN /\ pc' = "aborted"
              /\ UNCHANGED <<requests, packCodes, i>>
         ELSE IF IndexMapThrows(v)
         THEN /\ pc' = "crashed"
              /\ UNCHANGED <<requests, packCodes, i>>
         ELSE /\ packCodes' = [k \in 1..Len(v.items) |-> v.items[k].code]
              /\ i' = 1
              /\ requests' = {EncounterUrl(packCodes'[1])}
              /\ pc' = "encounter"
  /\ hops' = 0
  /\ result' = Pending
  /\ resp' = NoResponse
  /\ UNCHANGED <<pool, cards, db, last, served, artifact, writes>>

\* run() resumes with a document: the for...of loop over it begins, and throws
\* when the value is not iterable
BeginDocument ==
  /\ UNCHANGED appVars
  /\ pc \in {"encounter", "player"}
  /\ result.t = "resolved"
  /\ IF result.v.t = "array"
     THEN /\ cards' = result.v.items
          /\ pc' = IF pc = "encounter" THEN "foldEncounter" ELSE "foldPlayer"
     ELSE /\ pc' = "crashed"
          /\ UNCHANGED cards
  /\ result' = Pending
  /\ resp' = NoResponse
  /\ UNCHANGED <<pool, requests, hops, packCodes, i, db, last, served,
                 artifact, writes>>

\* one iteration of the loop over encounterCards
FoldEncounter ==
  /\ UNCHANGED appVars
  /\ pc = "foldEncounter"
  /\ cards # <<>>
  /\ last' = Head(cards)
  /\ cards' = Tail(cards)
  /\ IF Head(cards) = NullItem
     THEN pc' = "crashed" /\ UNCHANGED db
     ELSE db' = FoldEncounterCard(db, Head(cards)) /\ UNCHANGED pc
  /\ UNCHANGED <<pool, requests, hops, resp, result, packCodes, i, served,
                 artifact, writes>>

\* one iteration of the loop over playerCards
FoldPlayer ==
  /\ UNCHANGED appVars
  /\ pc = "foldPlayer"
  /\ cards # <<>>
  /\ last' = Head(cards)
  /\ cards' = Tail(cards)
  /\ IF Head(cards) = NullItem
     THEN pc' = "crashed" /\ UNCHANGED db
     ELSE db' = FoldPlayerCard(db, Head(cards)) /\ UNCHANGED pc
  /\ UNCHANGED <<pool, requests, hops, resp, result, packCodes, i, served,
                 artifact, writes>>

\* the encounter loop ends: const playerCards = await fetchJson(...)
FetchPlayer ==
  /\ UNCHANGED appVars
  /\ pc = "foldEncounter"
  /\ cards = <<>>
  /\ pc' = "player"
  /\ requests' = {PlayerUrl(packCodes[i])}
  /\ hops' = 0
  /\ last' = NoCard
  /\ UNCHANGED <<pool, resp, result, packCodes, i, cards, db, served,
                 artifact, writes>>

\* a loop over packCodes that never moves on to the next pack
NextPackSamePack ==
  /\ UNCHANGED appVars
  /\ pc = "foldPlayer"
  /\ cards = <<>>
  /\ i < Len(packCodes)
  /\ i' = i
  /\ pc' = "encounter"
  /\ requests' = {EncounterUrl(packCodes[i])}
  /\ hops' = 0
  /\ last' = NoCard
  /\ UNCHANGED <<pool, resp, result, packCodes, cards, db, served, artifact,
                 writes>>

\* the player loop ends and a pack is left: the next iteration of the loop
\* over packCodes
NextPack ==
  /\ UNCHANGED appVars
  /\ pc = "foldPlayer"
  /\ cards = <<>>
  /\ i < Len(packCodes)
  /\ i' = i + 1
  /\ pc' = "encounter"
  /\ requests' = {EncounterUrl(packCodes[i + 1])}
  /\ hops' = 0
  /\ last' = NoCard
  /\ UNCHANGED <<pool, resp, result, packCodes, cards, db, served, artifact,
                 writes>>

\* a write that appends the new entries to those OUTPUT_FILE already holds
FinishMerging ==
  /\ UNCHANGED appVars
  /\ pc = "foldPlayer"
  /\ cards = <<>>
  /\ i = Len(packCodes)
  /\ db' = SortDb(db)
  /\ artifact' = IF artifact = NotWritten THEN Stringify(db')
                 ELSE [c \in DOMAIN artifact |-> artifact[c] \o Stringify(db')[c]]
  /\ writes' = writes + 1
  /\ pc' = "done"
  /\ last' = NoCard
  /\ UNCHANGED <<pool, requests, hops, resp, result, packCodes, i, cards,
                 served>>

\* the last pack is folded: the three sorts, then fs.writeFileSync
Finish ==
  /\ UNCHANGED appVars
  /\ pc = "foldPlayer"
  /\ cards = <<>>
  /\ i = Len(packCodes)
  /\ db' = SortDb(db)
  /\ artifact' = Stringify(db')
  /\ writes' = writes + 1
  /\ pc' = "done"
  /\ last' = NoCard
  /\ UNCHANGED <<pool, requests, hops, resp, result, packCodes, i, cards,
                 served>>

\* the last pack is folded and a comparator throws: nothing is written
SortThrows ==
  /\ UNCHANGED appVars
  /\ pc = "foldPlayer"
  /\ cards = <<>>
  /\ i = Len(packCodes)
  /\ SortMayThrow(db.villains) \/ SortMayThrow(db.heroes)
  /\ db' = IF SortMayThrow(db.villains) THEN db
           ELSE [db EXCEPT !.villains = SortByName(@), !.schemes = SortByCode(@)]
  /\ pc' = "crashed"
  /\ last' = NoCard
  /\ UNCHANGED <<pool, requests, hops, resp, result, packCodes, i, cards,
                 served, artifact, writes>>

\* the steps of run(); the script never touches the page
Next ==
  \/ Start
  \/ \E r \in ResponsesNow : Receive(r)
  \/ AwaitThrows
  \/ RunIndex
  \/ BeginDocument
  \/ FoldEncounter
  \/ FoldPlayer
  \/ FetchPlayer
  \/ NextPack
  \/ Finish
  \/ SortThrows

Spec == Init /\ [][Next]_vars

\* the run that finds an artifact of an earlier run in OUTPUT_FILE
SpecPrior == InitPrior /\ [][Next]_vars

\* fetchJson follows a redirect however many it has followed: the request
\* made for a location gets a redirect again (hops stays at its cap)
FollowAgain(r) ==
  /\ UNCHANGED appVars
  /\ requests # {}
  /\ result = Pending
  /\ hops = MaxHops
  /\ FetchOutcome(r).t = "redirect"
  /\ IF FetchOutcome(r).to.scheme = "https"
     THEN requests' = {FetchOutcome(r).to} /\ result' = Pending
     ELSE requests' = {} /\ result' = Rejected
  /\ resp' = r
  /\ last' = NoCard
  /\ UNCHANGED <<pool, pc, hops, packCodes, i, cards, db, served, artifact,
                 writes>>

\* the cards of the runs checked for their end: a villain, a villain
\* without a name, a null element
LivePool ==
  { Card("villain", "Rhino", "01094", "rhino", Str(<<"0">>), Undefined, Undefined, Undefined, Undefined),
    Card("villain", Absent, "90003", "anon", Undefined, Undefined, Undefined, Undefined, Undefined),
    NullItem }

InitLive ==
  /\ pool = LivePool
  /\ pc = "start"
  /\ requests = {}
  /\ hops = 0
  /\ resp = NoResponse
  /\ result = Pending
  /\ packCodes = <<>>
  /\ i = 0
  /\ cards = <<>>
  /\ db = EmptyDb
  /\ last = NoCard
  /\ served = 0
  /\ artifact = NotWritten
  /\ writes = 0
  /\ InitTracker(NoDataFile)

NextLive ==
  \/ Next
  \/ \E r \in ResponsesNow : FollowAgain(r)

\* the run with a server that may redirect without end; every request gets
\* a response or fails, and the event loop runs every continuation that is
\* ready
SpecLive == InitLive /\ [][NextLive]_vars /\ WF_vars(NextLive)

(***************************************************************************)
(* The tracker: data files, handlers and effects of App                    *)
(* (src/unnamed/part_000).                                                 *)
(***************************************************************************)
Range(list) == {list[k] : k \in 1..Len(list)}

\* a data file of the shape the fetcher writes: two villains with the
\* stages of VILLAIN_STATS, two main schemes of one name with different
\* codes, a main scheme with a fixed target, one with target 0
TrackerFile ==
  [villains |-> <<[name |-> "Rhino", code |-> "01094", set_code |-> "rhino",
                   stages |-> <<14, 15, 16>>],
                  [name |-> "Wrecking Crew", code |-> "07001",
                   set_code |-> "wrecking_crew", stages |-> <<14, 14, 14>>]>>,
   schemes |-> <<[name |-> "The Break-In!", code |-> "01097",
                  set_code |-> "rhino", init |-> 0, target |-> 2,
                  accel |-> 1, fixed |-> False],
                 [name |-> "The Break-In!", code |-> "27097",
                  set_code |-> "sinister_six", init |-> 1, target |-> 3,
                  accel |-> 0, fixed |-> False],
                 [name |-> "The Crimson Cowl", code |-> "01118",
                  set_code |-> "ultron", init |-> 1, target |-> 2,
                  accel |-> 1, fixed |-> True],
                 [name |-> "Secret Rendezvous", code |-> "04079",
                  set_code |-> "kang", init |-> 2, target |-> 0,
                  accel |-> 1, fixed |-> False]>>,
   heroes |-> <<>>, side_schemes |-> <<>>, minions |-> <<>>, allies |-> <<>>]

\* a data file without villains: a hero, a main scheme, a minion and a
\* side scheme, all with small numbers
BoardFile ==
  [villains |-> <<>>,
   schemes |-> <<[name |-> "The Break-In!", code |-> "01097",
                  set_code |-> "rhino", init |-> 1, target |-> 2,
                  accel |-> 1, fixed |-> False]>>,
   heroes |-> <<[name |-> "Spider-Man", hp |-> 2, code |-> "01001"]>>,
   side_schemes |-> <<[name |-> "Breakin' & Takin'", init |-> 0,
                       code |-> "01107"]>>,
   minions |-> <<[name |-> "Hydra Soldier", hp |-> 2, code |-> "01112"]>>,
   allies |-> <<>>]

\* the buttons of the player-count row
PlayerCounts == {1, 2, 3, 4}

\* the amounts the dials are turned by; the buttons pass -1 and 1
Deltas == {-2, -1, 1, 2}

\* x || d for two numbers
JsOr(x, d) == IF x # 0 THEN x ELSE d

\* the identity in the place of Math.max(0, x)
Unclamped(x) == x

\* Math.max(0, x)
MathMax0(x) == IF x < 0 THEN 0 ELSE x

\* the dependency arrays of the two effects for the current render
CurrentDeps ==
  [recalc |-> <<playerCount, mainScheme.name, villain.name, villain.stageIdx>>,
   complete |-> <<mainScheme.threat, mainScheme.target>>]

\* every effect has run for the current render: the page waits for a tap
Settled == deps = CurrentDeps

\* safeData.schemes.find(s => (s.code && s.code === mainScheme.code)
\*                            || s.name === mainScheme.name)
SchemeMatches(s, ms) ==
  \/ s.code # Absent /\ s.code # "" /\ s.code = ms.code
  \/ s.name = ms.name

FoundAt(schemes, ms) == {k \in 1..Len(schemes) : SchemeMatches(schemes[k], ms)}

First(hits) == CHOOSE k \in hits : \A j \in hits : k <= j

\* the first half of the recalculation effect: what mainScheme is after it
RecalcScheme(file, ms, n) ==
  LET hits == FoundAt(file.schemes, ms)
  IN  IF hits = {} THEN ms
      ELSE LET base == JsOr(file.schemes[First(hits)].target, 0)
               newTarget == base * n
           IN  IF ms.target # newTarget \/ ms.baseTarget # base
               THEN [ms EXCEPT !.baseTarget = base, !.target = newTarget]
               ELSE ms

\* the second half of the recalculation effect: what villain is after it
RecalcVillain(v, n, rnd) ==
  IF Len(v.stages) > 0
  THEN LET baseHp == JsOr(v.stages[v.stageIdx + 1], 0)
           newMax == baseHp * n
       IN  IF v.maxHp # newMax
           THEN [v EXCEPT !.maxHp = newMax,
                          !.hp = IF rnd = 1 THEN newMax ELSE v.hp]
           ELSE v
  ELSE v

\* an effect that only ever shows the alert
SchemeCompletedOrShown(ms, shown) ==
  shown \/ (ms.target > 0 /\ ms.threat >= ms.target)

\* the completion effect: what showSchemeComplete is after it
SchemeCompleted(ms, shown) == ms.target > 0 /\ ms.threat >= ms.target

\* React runs, after a render, the effects whose dependencies changed, each
\* over the state of that render, and applies what they set together
RunEffects ==
  /\ UNCHANGED runVars
  /\ ~Settled
  /\ mainScheme' = IF deps.recalc # CurrentDeps.recalc
                   THEN RecalcScheme(marvelData, mainScheme, playerCount)
                   ELSE mainScheme
  /\ villain' = IF deps.recalc # CurrentDeps.recalc
                THEN RecalcVillain(villain, playerCount, round)
                ELSE villain
  /\ showSchemeComplete' = IF deps.complete # CurrentDeps.complete
                           THEN SchemeCompleted(mainScheme, showSchemeComplete)
                           ELSE showSchemeComplete
  /\ deps' = CurrentDeps
  /\ UNCHANGED <<marvelData, hero, units, round, playerCount, now>>

\* onClick={() => setPlayerCount(n)}
SetPlayerCount(n) ==
  /\ UNCHANGED runVars
  /\ Settled
  /\ playerCount' = n
  /\ UNCHANGED <<marvelData, villain, hero, mainScheme, units, round,
                 showSchemeComplete, now, deps>>

\* selectVillain(v)
SelectVillain(v) ==
  /\ UNCHANGED runVars
  /\ Settled
  /\ villain' = [name |-> v.name, code |-> v.code, set_code |-> v.set_code,
                 hp |-> JsOr(v.stages[1], 10) * playerCount,
                 maxHp |-> JsOr(v.stages[1], 10) * playerCount,
                 stages |-> v.stages, stageIdx |-> 0]
  /\ UNCHANGED <<marvelData, hero, mainScheme, units, round, playerCount,
                 showSchemeComplete, now, deps>>

\* onClick={() => setHero({ ...h, hp: h.hp, maxHp: h.hp, status: [] })}
SelectHero(h) ==
  /\ UNCHANGED runVars
  /\ Settled
  /\ hero' = [name |-> h.name, code |-> h.code, hp |-> h.hp, maxHp |-> h.hp]
  /\ UNCHANGED <<marvelData, villain, mainScheme, units, round, playerCount,
                 showSchemeComplete, now, deps>>

\* setStage(idx)
SetStage(idx) ==
  /\ UNCHANGED runVars
  /\ Settled
  /\ villain' = [villain EXCEPT !.stageIdx = idx]
  /\ UNCHANGED <<marvelData, hero, mainScheme, units, round, playerCount,
                 showSchemeComplete, now, deps>>

\* selectScheme(card)
SelectScheme(card) ==
  /\ UNCHANGED runVars
  /\ Settled
  /\ mainScheme' = [name |-> card.name, code |-> card.code,
                    threat |-> JsOr(card.init, 0),
                    target |-> JsOr(card.target, 0) * playerCount,
                    baseTarget |-> JsOr(card.target, 0),
                    accel |-> JsOr(card.accel, 0), fixed |-> card.fixed]
  /\ showSchemeComplete' = FALSE
  /\ UNCHANGED <<marvelData, villain, hero, units, round, playerCount, now,
                 deps>>

\* modThreat(n)
ModThreat(n) ==
  /\ UNCHANGED runVars
  /\ Settled
  /\ mainScheme.threat + n <= MaxThreat
  /\ mainScheme' = [mainScheme EXCEPT !.threat = MathMax0(@ + n)]
  /\ UNCHANGED <<marvelData, villain, hero, units, round, playerCount,
                 showSchemeComplete, now, deps>>

\* modVillainHp(n)
ModVillainHp(n) ==
  /\ UNCHANGED runVars
  /\ Settled
  /\ n > 0 => villain.hp + n <= MaxHp
  /\ villain' = [villain EXCEPT !.hp = MathMax0(@ + n)]
  /\ UNCHANGED <<marvelData, hero, mainScheme, units, round, playerCount,
                 showSchemeComplete, now, deps>>

\* modHeroHp(n)
ModHeroHp(n) ==
  /\ UNCHANGED runVars
  /\ Settled
  /\ n > 0 => hero.hp + n <= MaxHp
  /\ hero' = [hero EXCEPT !.hp = MathMax0(@ + n)]
  /\ UNCHANGED <<marvelData, villain, mainScheme, units, round, playerCount,
                 showSchemeComplete, now, deps>>

\* advanceGame(): modThreat(1 + mainScheme.accel); setRound(r => r + 1)
AdvanceGame ==
  /\ UNCHANGED runVars
  /\ Settled
  /\ round < MaxRound
  /\ mainScheme.threat + 1 + mainScheme.accel <= MaxThreat
  /\ mainScheme' = [mainScheme EXCEPT !.threat = MathMax0(@ + 1 + mainScheme.accel)]
  /\ round' = round + 1
  /\ UNCHANGED <<marvelData, villain, hero, units, playerCount,
                 showSchemeComplete, now, deps>>

\* the tabs of the summon drawer: the list shown and the type passed
UnitTypes == {"minion", "ally", "side_scheme"}

Templates(file, type) ==
  IF type = "minion" THEN file.minions
  ELSE IF type = "ally" THEN file.allies
  ELSE file.side_schemes

\* addUnit(template, type)
AddUnit(template, type) ==
  /\ UNCHANGED runVars
  /\ Settled
  /\ Len(units) < MaxUnits
  /\ LET startVal == IF type = "side_scheme" THEN JsOr(template.init, 0)
                     ELSE JsOr(template.hp, 0)
     IN  units' = Append(units, [name |-> template.name, code |-> template.code,
                                 id |-> now, val |-> startVal,
                                 max |-> startVal, type |-> type])
  /\ UNCHANGED <<marvelData, villain, hero, mainScheme, round, playerCount,
                 showSchemeComplete, now, deps>>

\* the ids of the units in play: the cards that have buttons
UnitIds == {units[k].id : k \in 1..Len(units)}

\* modUnitVal(id, amount)
ModUnitVal(id, amount) ==
  /\ UNCHANGED runVars
  /\ Settled
  /\ amount > 0 => \A k \in 1..Len(units) :
                     units[k].id = id => units[k].val + amount <= MaxHp
  /\ units' = [k \in 1..Len(units) |->
                 IF units[k].id # id THEN units[k]
                 ELSE [units[k] EXCEPT !.val = MathMax0(@ + amount)]]
  /\ UNCHANGED <<marvelData, villain, hero, mainScheme, round, playerCount,
                 showSchemeComplete, now, deps>>

\* restoreUnit(id)
RestoreUnit(id) ==
  /\ UNCHANGED runVars
  /\ Settled
  /\ units' = [k \in 1..Len(units) |->
                 IF units[k].id # id THEN units[k]
                 ELSE [units[k] EXCEPT !.val = 1]]
  /\ UNCHANGED <<marvelData, villain, hero, mainScheme, round, playerCount,
                 showSchemeComplete, now, deps>>

\* removeUnit(id)
RemoveUnit(id) ==
  /\ UNCHANGED runVars
  /\ Settled
  /\ units' = SelectSeq(units, LAMBDA u : u.id # id)
  /\ UNCHANGED <<marvelData, villain, hero, mainScheme, round, playerCount,
                 showSchemeComplete, now, deps>>

\* resetGame()
ResetGame ==
  /\ UNCHANGED runVars
  /\ Settled
  /\ villain' = DefaultVillain
  /\ hero' = DefaultHero
  /\ mainScheme' = DefaultScheme
  /\ units' = <<>>
  /\ round' = 1
  /\ playerCount' = 1
  /\ showSchemeComplete' = FALSE
  /\ UNCHANGED <<marvelData, now, deps>>

\* the two buttons of the alert: setShowSchemeComplete(false)
Dismiss ==
  /\ UNCHANGED runVars
  /\ Settled
  /\ showSchemeComplete
  /\ showSchemeComplete' = FALSE
  /\ UNCHANGED <<marvelData, villain, hero, mainScheme, units, round,
                 playerCount, now, deps>>

\* a millisecond passes
Tick ==
  /\ UNCHANGED runVars
  /\ now < MaxClock
  /\ now' = now + 1
  /\ UNCHANGED <<marvelData, villain, hero, mainScheme, units, round,
                 playerCount, showSchemeComplete, deps>>

\* the fetcher is not running while the page is used
RunIdle ==
  /\ pool = {}
  /\ pc = "start"
  /\ requests = {}
  /\ hops = 0
  /\ resp = NoResponse
  /\ result = Pending
  /\ packCodes = <<>>
  /\ i = 0
  /\ cards = <<>>
  /\ db = EmptyDb
  /\ last = NoCard
  /\ served = 0
  /\ artifact = NotWritten
  /\ writes = 0

\* a session of setting a game up: player count, villain, stage, main
\* scheme, the threat dial, the alert
InitScheme == RunIdle /\ InitTracker(TrackerFile)

NextScheme ==
  \/ RunEffects
  \/ \E n \in PlayerCounts : SetPlayerCount(n)
  \/ \E v \in Range(marvelData.villains) : SelectVillain(v)
  \/ \E idx \in {0, 1, 2} : SetStage(idx)
  \/ \E card \in Range(marvelData.schemes) : SelectScheme(card)
  \/ \E n \in Deltas : ModThreat(n)
  \/ Dismiss
  \/ ResetGame

SpecScheme == InitScheme /\ [][NextScheme]_vars

\* a session on the villain: player count, villain, stage, the villain's
\* dial, the rounds
InitVillain == RunIdle /\ InitTracker(TrackerFile)

NextVillain ==
  \/ RunEffects
  \/ \E n \in PlayerCounts : SetPlayerCount(n)
  \/ \E v \in Range(marvelData.villains) : SelectVillain(v)
  \/ \E idx \in {0, 1, 2} : SetStage(idx)
  \/ \E n \in Deltas : ModVillainHp(n)
  \/ AdvanceGame
  \/ ResetGame

SpecVillain == InitVillain /\ [][NextVillain]_vars

\* a session on the board within one reading of the clock: the dials, the
\* units, the rounds
InitBoard == RunIdle /\ InitTracker(BoardFile)

NextBoard ==
  \/ RunEffects
  \/ \E h \in Range(marvelData.heroes) : SelectHero(h)
  \/ \E card \in Range(marvelData.schemes) : SelectScheme(card)
  \/ \E n \in Deltas : ModThreat(n)
  \/ \E n \in Deltas : ModVillainHp(n)
  \/ \E n \in Deltas : ModHeroHp(n)
  \/ AdvanceGame
  \/ \E type \in UnitTypes :
       \E template \in Range(Templates(marvelData, type)) :
         AddUnit(template, type)
  \/ \E id \in UnitIds, amount \in Deltas : ModUnitVal(id, amount)
  \/ \E id \in UnitIds : RestoreUnit(id)
  \/ \E id \in UnitIds : RemoveUnit(id)
  \/ ResetGame

SpecBoard == InitBoard /\ [][NextBoard]_vars

\* a session on the units while the clock runs
InitUnits == RunIdle /\ InitTracker(BoardFile)

NextUnits ==
  \/ RunEffects
  \/ Tick
  \/ \E type \in UnitTypes :
       \E template \in Range(Templates(marvelData, type)) :
         AddUnit(template, type)
  \/ \E id \in UnitIds, amount \in Deltas : ModUnitVal(id, amount)
  \/ \E id \in UnitIds : RestoreUnit(id)
  \/ \E id \in UnitIds : RemoveUnit(id)

SpecUnits == InitUnits /\ [][NextUnits]_vars

(***************************************************************************)
(* Properties.                                                             *)
(***************************************************************************)

\* the step folds a record that is an object: last' is that record
FoldsRecord == last' \notin {NoCard, NullItem}

Written == artifact # NotWritten

\* the name of an entry of the artifact, Absent when it was left out
NameOf(e) == IF "name" \in DOMAIN e THEN e.name ELSE Absent

\* C1: every villain entry whose name is a key of VILLAIN_STATS has the
\* table's stages for that name, in the aggregate at every moment and in the
\* written artifact, whatever the health of the records and however many
\* records supply the name.
C1_OverrideStages ==
  /\ \A e \in Range(db.villains) :
       e.name \in DOMAIN VILLAIN_STATS => e.stages = Stages(VILLAIN_STATS[e.name])
  /\ Written =>
       \A e \in Range(artifact.villains) :
         NameOf(e) \in DOMAIN VILLAIN_STATS =>
           "stages" \in DOMAIN e /\ e.stages = VILLAIN_STATS[e.name]

\* a second Rhino record, with health null, has been folded after a first one
\* with health "0"
C1_Witness ==
  /\ pc = "foldEncounter"
  /\ last \in VillainPool
  /\ last.name = "Rhino" /\ last.health = Null
  /\ Len(db.villains) = 1
  /\ db.villains[1].code = "01094"
  /\ db.villains[1].stages = Stages(<<14, 15, 16>>)

\* C2: every villain entry whose name is not a key of VILLAIN_STATS has the
\* stages (15, 15, 15), in the aggregate and in the written artifact.
C2_FallbackStages ==
  /\ \A e \in Range(db.villains) :
       PropertyKey(e.name) \notin DOMAIN VILLAIN_STATS
         => e.stages = Stages(<<15, 15, 15>>)
  /\ Written =>
       \A e \in Range(artifact.villains) :
         PropertyKey(NameOf(e)) \notin DOMAIN VILLAIN_STATS
           => "stages" \in DOMAIN e /\ e.stages = <<15, 15, 15>>

\* the characters of a raw field: those of a string, the decimal writing of a
\* number, none for a field that is null or missing
RawText(v) ==
  IF v.t = "string" THEN v.cs
  ELSE IF v.t = "number" THEN JsString(v)
  ELSE <<>>

RECURSIVE ValueOfDigits(_)
ValueOfDigits(ds) ==
  IF ds = <<>> THEN 0
  ELSE ValueOfDigits(SubSeq(ds, 1, Len(ds) - 1)) * 10 + DigitVal(ds[Len(ds)])

\* the digits of the raw field read as one decimal number, 0 without a digit
DigitsOnlyValue(v) ==
  ValueOfDigits(SelectSeq(RawText(v), LAMBDA c : c \in DigitChars))

UnitCollections == {"minions", "heroes", "allies"}

\* C3: an entry of minions, heroes or allies is created with the hp that the
\* digits of its record's raw health spell (0 without a digit), and no step
\* changes or removes an entry afterwards.
C3_HpFromDigits ==
  [][\A c \in UnitCollections :
       /\ Range(db[c]) \subseteq Range(db'[c])
       /\ FoldsRecord /\ db'[c] # db[c] =>
            /\ Len(db'[c]) = Len(db[c]) + 1
            /\ db'[c][Len(db'[c])].hp = DigitsOnlyValue(last'.health)]_vars

\* the minion Hand Ninja with health "2x3" has been folded into an entry
\* with hp 23
C3_Witness ==
  /\ last \in UnitPool
  /\ last.type_code = "minion" /\ last.health = Str(<<"2", "x", "3">>)
  /\ Len(db.minions) = 1
  /\ db.minions[1] = [name |-> "Hand Ninja", hp |-> 23, code |-> "01110"]

DistinctNames(list) ==
  \A j, k \in 1..Len(list) : j # k => NameOf(list[j]) # NameOf(list[k])

DedupCollections == {"villains", "heroes", "side_schemes", "minions", "allies"}

\* C4: no two entries of villains share a name, and likewise for heroes,
\* side_schemes, minions and allies, in every state of the aggregate and in
\* the written artifact.
C4_NoDuplicateNames ==
  /\ \A c \in DedupCollections : DistinctNames(db[c])
  /\ Written => \A c \in DedupCollections : DistinctNames(artifact[c])

\* a second minion record named Hand Ninja has been folded and minions still
\* holds the one entry of the first
C4_Witness ==
  /\ pc = "foldEncounter"
  /\ last \in UnitPool
  /\ last.type_code = "minion" /\ last.code = "01111"
  /\ Len(db.minions) = 1
  /\ db.minions[1].name = "Hand Ninja" /\ db.minions[1].code = "01110"

FirstWinsCollections == {"heroes", "allies", "minions", "side_schemes"}

\* the specified init: the record's base_threat, 0 when there is none
InitOf(card) == IF Truthy(card.base_threat) THEN card.base_threat ELSE Num(0)

\* C5: for heroes, allies, minions and side schemes the first record of a
\* name creates the entry, with that record's code and hp (init for a side
\* scheme), and a later record of the same name changes nothing.
C5_FirstRecordWins ==
  [][\A c \in FirstWinsCollections :
       /\ Range(db[c]) \subseteq Range(db'[c])
       /\ FoldsRecord =>
            /\ \A k \in 1..Len(db[c]) : db'[c][k] = db[c][k]
            /\ HasName(db[c], last'.name) => db'[c] = db[c]
            /\ db'[c] # db[c] =>
                 LET e == db'[c][Len(db'[c])]
                 IN  /\ Len(db'[c]) = Len(db[c]) + 1
                     /\ e.name = last'.name /\ e.code = last'.code
                     /\ c \in UnitCollections => e.hp = DigitsOnlyValue(last'.health)
                     /\ c = "side_schemes" => e.init = InitOf(last')]_vars

\* the second pack's player document supplies Spider-Man again, with another
\* code and health, and heroes keeps the entry of the first pack's record
C5_Witness ==
  /\ pc = "foldPlayer"
  /\ i = 2
  /\ last \in PlayerPool
  /\ last.name = "Spider-Man" /\ last.code = "27001"
  /\ db.heroes = <<[name |-> "Spider-Man", hp |-> 10, code |-> "01001"]>>

\* the specified test: the threat field is present and not null, or the record
\* declares the fixed base-threat flag
ThreatUsable(card) == card.threat # Undefined /\ card.threat # Null
DeclaresFixed(card) == card.base_threat_fixed = True

\* C6: a main_scheme record of an encounter document adds an entry to
\* schemes exactly when its threat is present and not null or it declares
\* base_threat_fixed; with threat null and the flag set the entry has
\* target 0 and fixed true; a record with neither adds nothing.
C6_SchemeInclusion ==
  [][FoldsRecord /\ pc = "foldEncounter" /\ last'.type_code = "main_scheme" =>
       /\ (db'.schemes # db.schemes) <=> (ThreatUsable(last') \/ DeclaresFixed(last'))
       /\ db'.schemes # db.schemes =>
            /\ Len(db'.schemes) = Len(db.schemes) + 1
            /\ SubSeq(db'.schemes, 1, Len(db.schemes)) = db.schemes
            /\ db'.schemes[Len(db'.schemes)].name = last'.name
            /\ db'.schemes[Len(db'.schemes)].code = last'.code
            /\ last'.threat = Null /\ DeclaresFixed(last') =>
                 /\ db'.schemes[Len(db'.schemes)].target = Num(0)
                 /\ db'.schemes[Len(db'.schemes)].fixed = True]_vars

\* the record with threat null and base_threat_fixed true has been folded
\* into an entry with target 0 and fixed true
C6_Witness ==
  /\ pc = "foldEncounter"
  /\ last \in SchemePool
  /\ last.threat = Null /\ last.base_threat_fixed = True
  /\ Len(db.schemes) >= 1
  /\ db.schemes[Len(db.schemes)].target = Num(0)
  /\ db.schemes[Len(db.schemes)].fixed = True
  /\ db.schemes[Len(db.schemes)].name = "The Break-In!"

\* a response whose body is the one fetchJson reads: not a redirect that is
\* followed
BodyRead(r) ==
  r.kind = "response" /\ ~(r.status >= 300 /\ r.status < 400 /\ r.location # NoLocation)

\* a failed fetch: a transport error, a status outside 2xx/3xx, or a body
\* that does not parse
FailedFetch(r) ==
  \/ r.kind = "error"
  \/ BodyRead(r) /\ (r.status < 200 \/ r.status >= 400 \/ r.body = Unparsable)

\* C7: when the fetch of an encounter or player document has failed, run()
\* goes on without throwing, folds no record of that document and leaves the
\* aggregate as it was.
C7_FailedFetchSkipsPack ==
  [][(pc \in {"encounter", "player"} /\ result # Pending /\ FailedFetch(resp)) =>
       (/\ pc' \in {"foldEncounter", "foldPlayer"}
        /\ cards' = <<>>
        /\ db' = db)]_vars

\* what fetchJson is specified to return for the response r
ContractValue(r) ==
  IF FailedFetch(r) THEN JArray(<<>>) ELSE r.body

\* C8: once fetchJson has settled, it has resolved (never rejected), with the
\* parsed body of the response, or with [] after a transport error, a status
\* outside 2xx/3xx or an unparsable body.
C8_FetchJsonContract ==
  resp # NoResponse /\ result # Pending =>
    result = Resolved(ContractValue(resp))

\* a pack index nothing can be normalized from: a failed or unparsable
\* response, a value that is no array, an empty array, an array with an
\* element that is null or has no code
IndexUnusable(r) ==
  \/ r.kind = "error"
  \/ /\ BodyRead(r)
     /\ \/ r.body \in {Unparsable, JNull, JObject}
        \/ /\ r.body.t = "array"
           /\ \/ r.body.items = <<>>
              \/ \E k \in 1..Len(r.body.items) :
                   \/ r.body.items[k] = NullItem
                   \/ r.body.items[k] = PackObject(Absent)

\* C9: with an empty, malformed or unparsable pack index (a failed index
\* fetch included) run() ends at once: no pack document is requested and
\* the artifact is not written.
C9_BadIndexAborts ==
  [][(pc = "index" /\ result # Pending /\ IndexUnusable(resp)) =>
       (/\ pc' \in {"aborted", "crashed"}
        /\ requests' = {}
        /\ artifact' = NotWritten)]_vars

\* the specified order on two entries of the artifact: by name
NameAscending(a, b) ==
  LET ra == CollationRank(PropertyKey(NameOf(a)))
      rb == CollationRank(PropertyKey(NameOf(b)))
  IN  IF ra < rb THEN -1 ELSE IF ra > rb THEN 1 ELSE 0

\* the specified order on two entries of the artifact: by code, an empty
\* or missing code before every other
CodeAscending(a, b) ==
  LET ca == IF "code" \in DOMAIN a THEN a.code ELSE ""
      cb == IF "code" \in DOMAIN b THEN b.code ELSE ""
  IN  IF ca = cb THEN 0
      ELSE IF ca = "" THEN -1
      ELSE IF cb = "" THEN 1
      ELSE IF CollationRank(ca) < CollationRank(cb) THEN -1 ELSE 1

SortedByName(list) ==
  \A j, k \in 1..Len(list) : j < k => NameAscending(list[j], list[k]) <= 0

SortedByCode(list) ==
  \A j, k \in 1..Len(list) : j < k => CodeAscending(list[j], list[k]) <= 0

\* C10: the written artifact has villains and heroes in ascending order of
\* name and schemes in ascending order of code, empty and missing codes
\* first; it is written when every pack has been folded, from the sorted
\* aggregate.
C10_ArtifactSorted ==
  Written =>
    /\ SortedByName(artifact.villains)
    /\ SortedByName(artifact.heroes)
    /\ SortedByCode(artifact.schemes)
    /\ pc = "done" /\ i = Len(packCodes) /\ cards = <<>>
    /\ artifact = Stringify(db)

\* the artifact is written with the villains Klaw and Rhino, in that order
C10_Witness ==
  /\ pc = "done"
  /\ Written
  /\ Len(artifact.villains) = 2
  /\ artifact.villains[1].name = "Klaw"
  /\ artifact.villains[2].name = "Rhino"

\* a number that is zero or more
NonNegativeNumber(v) == v.t = "number" /\ v.n >= 0

ThreatFields == {"init", "target", "accel"}

\* C12: in the written artifact every hp of minions, heroes and allies and
\* every init, target and accel of schemes and init of side_schemes is
\* present and is a number that is zero or more, whatever the raw fields of
\* the records held.
C12_NonNegativeNumbers ==
  Written =>
    /\ \A c \in UnitCollections : \A e \in Range(artifact[c]) :
         "hp" \in DOMAIN e /\ e.hp \in Nat
    /\ \A e \in Range(artifact.schemes) : \A f \in ThreatFields :
         f \in DOMAIN e /\ NonNegativeNumber(e[f])
    /\ \A e \in Range(artifact.side_schemes) :
         "init" \in DOMAIN e /\ NonNegativeNumber(e.init)

Collections == {"villains", "schemes", "heroes", "side_schemes", "minions", "allies"}

\* the entries of list that carry the name
CountOfName(list, name) ==
  Cardinality({k \in 1..Len(list) : NameOf(list[k]) = name})

OnePerName(list) == \A e \in Range(list) : CountOfName(list, NameOf(e)) = 1

\* C13 as specified: each of the six collections of the written artifact,
\* schemes included, holds at most one entry per name.
C13_OnePerNameEverywhere ==
  Written => \A c \in Collections : OnePerName(artifact[c])

\* C13: each collection of the written artifact other than schemes holds at
\* most one entry per name (schemes holds one entry per included record,
\* whatever its name).
C13_OnePerNameExceptSchemes ==
  Written => \A c \in Collections \ {"schemes"} : OnePerName(artifact[c])

\* two side scheme records named Breakin' & Takin' were served and folded,
\* and the written artifact holds one side scheme
C13_Witness ==
  /\ Written
  /\ pool = UnitPool
  /\ served = 2
  /\ artifact.minions = <<>>
  /\ Len(artifact.side_schemes) = 1
  /\ artifact.side_schemes[1].name = "Breakin' & Takin'"

\* C14: fs.writeFileSync is called at most once in a run; until then
\* OUTPUT_FILE is what it was before the run; the one write happens when the
\* last pack is folded and the sorts are done, and leaves one object with
\* exactly the six array fields, holding the entries of the sorted aggregate
\* and nothing of the earlier file.
C14_WrittenOnceAtEnd ==
  /\ writes <= 1
  /\ writes = 0 => artifact = PriorArtifact
  /\ writes = 1 =>
       /\ pc = "done" /\ requests = {} /\ cards = <<>> /\ i = Len(packCodes)
       /\ db = SortDb(db)
       /\ DOMAIN artifact = Collections
       /\ \A c \in Collections :
            /\ DOMAIN artifact[c] = 1..Len(db[c])
            /\ \A k \in 1..Len(db[c]) : artifact[c][k] = StringifyEntry(db[c][k])
       /\ \A e \in Range(PriorArtifact.minions) : e \notin Range(artifact.minions)

\* a run over two packs has replaced the earlier file by an artifact with one
\* minion
C14_Witness ==
  /\ writes = 1
  /\ Len(packCodes) = 2
  /\ artifact # PriorArtifact
  /\ Len(artifact.minions) = 1
  /\ artifact.minions[1].name = "Hydra Soldier"

\* C15: a villain record whose name villains already holds leaves the number
\* and the order of the entries and the name, code and set_code of each as
\* they were; a villain record of a new name leaves the entries there are
\* untouched and appends one with its own name and code.
C15_LaterVillainKeepsIdentity ==
  [][(FoldsRecord /\ pc = "foldEncounter" /\ last'.type_code = "villain") =>
       (/\ \A k \in 1..Len(db.villains) :
             /\ k <= Len(db'.villains)
             /\ db'.villains[k].name = db.villains[k].name
             /\ db'.villains[k].code = db.villains[k].code
             /\ db'.villains[k].set_code = db.villains[k].set_code
        /\ HasName(db.villains, last'.name) =>
             Len(db'.villains) = Len(db.villains)
        /\ ~HasName(db.villains, last'.name) =>
             /\ Len(db'.villains) = Len(db.villains) + 1
             /\ db'.villains[Len(db'.villains)].name = last'.name
             /\ db'.villains[Len(db'.villains)].code = last'.code)]_vars

\* the Rhino record with code 01095 and no set code has been folded after
\* the one with code 01094 of the set rhino, and the entry keeps 01094 and
\* rhino
C15_Witness ==
  /\ pc = "foldEncounter"
  /\ last \in VillainPool
  /\ last.code = "01095" /\ last.card_set_code = Absent
  /\ Len(db.villains) = 1
  /\ db.villains[1].name = "Rhino"
  /\ db.villains[1].code = "01094"
  /\ db.villains[1].set_code = "rhino"

\* C16: every included main_scheme record of an encounter document appends
\* one entry to schemes, also when schemes holds its name already; no other
\* step changes the number of entries, and the write puts as many entries in
\* the artifact as the aggregate holds.
C16_SchemesNotDeduplicated ==
  [][/\ (FoldsRecord /\ pc = "foldEncounter" /\ last'.type_code = "main_scheme"
           /\ (ThreatUsable(last') \/ DeclaresFixed(last'))) =>
          (/\ Len(db'.schemes) = Len(db.schemes) + 1
           /\ SubSeq(db'.schemes, 1, Len(db.schemes)) = db.schemes
           /\ db'.schemes[Len(db'.schemes)].name = last'.name)
     /\ ~(FoldsRecord /\ pc = "foldEncounter" /\ last'.type_code = "main_scheme") =>
          Len(db'.schemes) = Len(db.schemes)
     /\ writes' # writes => Len(artifact'.schemes) = Len(db.schemes)]_vars

\* the artifact is written with two schemes named The Break-In!
C16_Witness ==
  /\ pc = "done"
  /\ writes = 1
  /\ Len(artifact.schemes) = 2
  /\ artifact.schemes[1].name = "The Break-In!"
  /\ artifact.schemes[2].name = "The Break-In!"
  /\ artifact.schemes[1] # artifact.schemes[2]

\* the specified value of a field: the raw field, the default when the record
\* has none
OrDefault(v, d) == IF v \in {Undefined, Null} THEN d ELSE v

\* the step appends an entry to schemes for the record it folds
AddsScheme ==
  FoldsRecord /\ last'.type_code = "main_scheme" /\ db'.schemes # db.schemes

\* the step appends an entry to side_schemes for the record it folds
AddsSideScheme ==
  FoldsRecord /\ last'.type_code = "side_scheme" /\ db'.side_schemes # db.side_schemes

\* the entry a step has appended to a collection
NewEntry(c) == db'[c][Len(db'[c])]

\* init, target, accel and fixed of a new scheme entry and init of a new side
\* scheme entry are the raw fields of the record, with their defaults
ThreatFieldsMapped ==
  /\ AddsScheme =>
       /\ NewEntry("schemes").init = OrDefault(last'.base_threat, Num(0))
       /\ NewEntry("schemes").target = OrDefault(last'.threat, Num(0))
       /\ NewEntry("schemes").accel = OrDefault(last'.acceleration, Num(0))
       /\ NewEntry("schemes").fixed = OrDefault(last'.base_threat_fixed, False)
       /\ NewEntry("schemes").name = last'.name
       /\ NewEntry("schemes").code = last'.code
  /\ AddsSideScheme =>
       NewEntry("side_schemes").init = OrDefault(last'.base_threat, Num(0))

\* C17 as specified: a new scheme entry has the raw fields of its record with
\* their defaults, and its name, code and set_code are those of the record.
C17_FieldsCopied ==
  [][/\ ThreatFieldsMapped
     /\ AddsScheme => NewEntry("schemes").set_code = last'.card_set_code]_vars

\* C17: a new scheme entry has init, target, accel and fixed from the
\* record's base_threat, threat, acceleration and base_threat_fixed (0, 0, 0
\* and false without them), the name and code of the record, and the
\* record's card_set_code as set_code, "unknown" when the record has none or
\* an empty one; a new side scheme entry has init from base_threat, 0
\* without it.
C17_FieldMapping ==
  [][/\ ThreatFieldsMapped
     /\ AddsScheme =>
          NewEntry("schemes").set_code =
            IF last'.card_set_code \in {Absent, ""} THEN "unknown"
            ELSE last'.card_set_code]_vars

\* the record Underground Distribution, without set code, acceleration and
\* with threat 0, has been folded into an entry of the set "unknown"
C17_Witness ==
  /\ pc = "foldEncounter"
  /\ last \in SchemePool
  /\ last.name = "Underground Distribution" /\ last.card_set_code = Absent
  /\ db.schemes # <<>>
  /\ db.schemes[Len(db.schemes)] =
       [name |-> "Underground Distribution", code |-> "", set_code |-> "unknown",
        init |-> Num(6), target |-> Num(0), accel |-> Num(0), fixed |-> False]

EncounterCollections == {"villains", "schemes", "side_schemes", "minions"}
PlayerCollections == {"heroes", "allies"}

\* C18: folding a record of an encounter document leaves heroes and allies
\* as they were, and folding a record of a player document leaves villains,
\* schemes, side_schemes and minions as they were, whatever the kind of the
\* record.
C18_KindsByDocument ==
  [][FoldsRecord =>
       /\ pc = "foldEncounter" => \A c \in PlayerCollections : db'[c] = db[c]
       /\ pc = "foldPlayer" => \A c \in EncounterCollections : db'[c] = db[c]]_vars

\* two records of KindsPool have been served for the first pack, the last
\* of them a villain record of the player document, and the aggregate is
\* empty: each was of a kind its document does not supply
C18_Witness ==
  /\ pc = "foldPlayer"
  /\ pool = KindsPool
  /\ served = 2
  /\ i = 1
  /\ cards = <<>>
  /\ last \in KindsPool
  /\ last.type_code = "villain"
  /\ db = EmptyDb

RecognizedKinds == {"villain", "main_scheme", "side_scheme", "minion", "hero", "ally"}

\* C19: folding a record whose type_code is missing or is none of the six
\* recognized kinds leaves the aggregate as it was, and the loop goes on with
\* the records after it: run() neither throws nor ends, and nothing is
\* written by that step.
C19_UnknownKindSkipped ==
  [][(FoldsRecord /\ last'.type_code \notin RecognizedKinds) =>
       (/\ db' = db
        /\ pc' = pc
        /\ cards' = Tail(cards)
        /\ UNCHANGED <<artifact, writes>>)]_vars

\* a record of the kind "Villain" has been folded, the aggregate is empty
\* and the loop stands before the minion record that follows it
C19_Witness ==
  /\ pc = "foldEncounter"
  /\ pool = OddPool
  /\ last \in OddPool \ {NullItem}
  /\ last.type_code = "Villain"
  /\ Len(cards) = 1
  /\ cards[1] \in OddPool \ {NullItem}
  /\ cards[1].type_code = "minion"
  /\ db = EmptyDb

\* C20: every step leaves at most one request in flight, and none while a
\* document is being folded; a request for a new document is made only when
\* the loop before it has ended: the index first, the encounter document of
\* the first pack next, the player document of a pack when its encounter
\* document is folded, the encounter document of the next pack of packCodes
\* when the player document is folded.
C20_StrictlySequential ==
  [][/\ Cardinality(requests') <= 1
     /\ requests' # {} =>
          cards' = <<>> /\ pc' \in {"index", "encounter", "player"}
     /\ (requests' # {} /\ pc' # pc) =>
          \/ pc = "start" /\ requests' = {PACKS_API}
          \/ /\ pc = "index" /\ i' = 1
             /\ requests' = {EncounterUrl(packCodes'[1])}
          \/ /\ pc = "foldEncounter" /\ cards = <<>> /\ i' = i
             /\ packCodes' = packCodes
             /\ requests' = {PlayerUrl(packCodes[i])}
          \/ /\ pc = "foldPlayer" /\ cards = <<>> /\ i' = i + 1
             /\ packCodes' = packCodes
             /\ requests' = {EncounterUrl(packCodes[i + 1])}]_vars

\* the player document of the second pack is requested, after records of
\* the first pack were folded
C20_Witness ==
  /\ pc = "player"
  /\ i = 2
  /\ packCodes = <<"core", "gob">>
  /\ requests = {PlayerUrl("gob")}
  /\ db # EmptyDb

\* a response with a 3xx status and a location header
RedirectResponse(r) ==
  r.kind = "response" /\ r.status >= 300 /\ r.status < 400 /\ r.location # NoLocation

\* the step delivers a response to fetchJson
Delivers ==
  requests # {} /\ result = Pending /\ (result' # Pending \/ hops' = hops + 1)

VillainNames(list) == {list[k].name : k \in 1..Len(list)}

\* the stages the artifact holds for a villain entry, none when the property
\* was left out
WrittenStages(e) == IF "stages" \in DOMAIN e THEN e.stages ELSE <<>>

\* the stages a name gets, as the artifact holds them
StagesOfName(name) ==
  IF goldenStats(name).t = "function" THEN <<>> ELSE goldenStats(name).a

\* C22: the stages of every villain entry are those its name alone gives
\* (the table entry, else the fallback), the names of villains are exactly
\* the names of the villain records folded from encounter documents so
\* far, and the write puts exactly these (name, stages) pairs in the
\* artifact: the pairs do not depend on which record, of which pack, came
\* first.
C22_StagesByNameOnly ==
  [][/\ \A e \in Range(db'.villains) : e.stages = goldenStats(e.name)
     /\ VillainNames(db'.villains) =
          VillainNames(db.villains) \cup
            (IF FoldsRecord /\ pc = "foldEncounter" /\ last'.type_code = "villain"
             THEN {last'.name} ELSE {})
     /\ writes' # writes =>
          {<<NameOf(e), WrittenStages(e)>> : e \in Range(artifact'.villains)} =
            {<<n, StagesOfName(n)>> : n \in VillainNames(db.villains)}]_vars

\* the two Rhino records were folded in the order 01095, 01094: the entry
\* has the code and set of the first and the stages of the table
C22_Witness ==
  /\ pc = "foldEncounter"
  /\ last \in VillainPool
  /\ last.code = "01094"
  /\ Len(db.villains) = 1
  /\ db.villains[1].code = "01095"
  /\ db.villains[1].set_code = "unknown"
  /\ db.villains[1].stages = Stages(<<14, 15, 16>>)

\* run() has returned or thrown
Ended == pc \in {"done", "aborted", "crashed"}

\* the step follows a redirect: fetchJson stays unsettled
FollowsRedirect ==
  requests # {} /\ result = Pending /\ result' = Pending /\ RedirectResponse(resp')

\* C23 as specified: whatever the server answers, redirects included, the
\* run ends.
C23_RunEnds == <>Ended

\* C23: the run ends (aborted, stopped by an exception, or with the artifact
\* written) unless the server keeps answering the requests of one fetchJson
\* call with redirects for ever.
C23_EndsUnlessRedirectedForever == ([]<><<FollowsRedirect>>_vars) \/ <>Ended

\* the last document was fetched through as many redirects as the model
\* counts, and the artifact is written
C23_Witness ==
  /\ pc = "done"
  /\ writes = 1
  /\ hops = MaxHops
  /\ Len(packCodes) = MaxPacks

(***************************************************************************)
(* The tracker's properties.                                               *)
(***************************************************************************)
\* the cards of the data file that carry the code of the tracked scheme
SelectedCards == {c \in Range(marvelData.schemes) : c.code = mainScheme.code}

\* C24: once the effects have settled, the target of a tracked main scheme
\* whose fixed flag is true is the target of its record, whatever the player
\* count is.
C24_FixedTargetAbsolute ==
  Settled =>
    \A c \in SelectedCards :
      mainScheme.fixed = True => mainScheme.target = c.target

\* C25: once the effects have settled, baseTarget is the target of the card
\* that carries the code of the tracked scheme, and target is baseTarget
\* times the player count.
C25_TargetOfSelectedCard ==
  Settled =>
    \A c \in SelectedCards :
      /\ mainScheme.baseTarget = c.target
      /\ mainScheme.target = mainScheme.baseTarget * playerCount

\* the effects run for a change of villain.stageIdx alone, on a selected
\* villain: setStage was the last tap
AfterSetStage ==
  /\ villain.name # "Setup Game"
  /\ deps.recalc # <<>>
  /\ deps.recalc[1] = playerCount
  /\ deps.recalc[2] = mainScheme.name
  /\ deps.recalc[3] = villain.name
  /\ deps.recalc[4] # villain.stageIdx
  /\ deps' = CurrentDeps

\* C26: when the effects have run after setStage(idx) on a selected
\* villain, stageIdx is idx, maxHp is stages[idx] times the player count and
\* hp is that maximum.
C26_StageSetsHp ==
  [][AfterSetStage =>
       /\ deps' = CurrentDeps'
       /\ villain'.stageIdx = villain.stageIdx
       /\ villain'.maxHp = villain.stages[villain.stageIdx + 1] * playerCount
       /\ villain'.hp = villain'.maxHp]_vars

\* C27: in a settled state the recalculation effect, run again, sets
\* nothing: neither mainScheme nor villain.
C27_SettledIsFixpoint ==
  Settled =>
    /\ RecalcScheme(marvelData, mainScheme, playerCount) = mainScheme
    /\ RecalcVillain(villain, playerCount, round) = villain

\* C28: in every settled state the alert is shown only while the target is
\* positive and the threat has reached it; never for a target of 0.
C28_AlertOnlyWhenComplete ==
  Settled =>
    (showSchemeComplete =>
       mainScheme.target > 0 /\ mainScheme.threat >= mainScheme.target)

\* the alert is up for a scheme raised from its initial threat to its
\* target
C28_Witness ==
  /\ Settled
  /\ showSchemeComplete
  /\ mainScheme.code = "01118"
  /\ mainScheme.threat = 2
  /\ mainScheme.target = 2

C30_DistinctIds ==
  \A j, k \in 1..Len(units) : j # k => units[j].id # units[k].id

====
